---- MODULE Spec2Model ----
(***************************************************************************)
(* Model of the GoXLR USB request/response engine                          *)
(* (usb/src/device/usb.rs, GoXLRUSB::perform_request).                     *)
(*                                                                         *)
(* perform_request is a blocking, recursive function.  It is modelled as   *)
(* a call stack of activation records; the model takes one step per        *)
(* control transfer (write_control, read_control) and one step for the     *)
(* caller's invocation.  Everything the code does between two transfers    *)
(* (sequence assignment, framing, unwinding of `?`, entering the resync    *)
(* calls) is part of the step of the transfer that precedes it.            *)
(***************************************************************************)
EXTENDS Integers, Sequences, FiniteSets, TLC

(***************************************************************************)
(* Program constants                                                       *)
(***************************************************************************)
U16Max == 65535

HeaderLen == 16

PollLimitShort == 20 - 1

PollLimitLong == 20 + 1

\* line 130: `for i in 0..20`
PollLimit == 20

(***************************************************************************)
(* Bounds of the model                                                     *)
(***************************************************************************)
MaxCalls == 2

\* calls made by a session whose settle delays are observed
MaxTimedCalls == 1

\* calls made on the hardtune component of a profile
MaxHardtuneCalls == 2

\* command and response bodies (the engine never looks into a body)
Bodies == {<<>>, <<7>>}

\* A session that has already carried this many non-reset commands.
InitialCounts == {0, U16Max - 1}

(***************************************************************************)
(* Commands (crate::commands::Command) and their numeric identifiers       *)
(***************************************************************************)
Commands == {"ResetCommandIndex", "SystemInfo", "GetMicrophoneLevel"}

command_id(command) ==
    CASE command = "SystemInfo"         -> 0
      [] command = "ResetCommandIndex"  -> 16384
      [] command = "GetMicrophoneLevel" -> 8437760

\* crate::goxlr: the vendor identifier and the two product identifiers
VID_GOXLR == 4640

PID_GOXLR_FULL == 36832

PID_GOXLR_MINI == 36836

\* rusb::Error values a control transfer can fail with.
RusbErrors == {"Pipe", "Timeout", "Other"}

(***************************************************************************)
(* byteorder::LittleEndian                                                 *)
(***************************************************************************)
write_u16_be(n) == << (n \div 256) % 256, n % 256 >>

write_u16(n) == << n % 256, (n \div 256) % 256 >>

write_u32(n) ==
    << n % 256, (n \div 256) % 256, (n \div 65536) % 256, (n \div 16777216) % 256 >>

\* read_u16(&buf[off..off+2]) with off counted from 0 as in the source
read_u16(buf, off) == buf[off + 1] + 256 * buf[off + 2]

Zeros(n) == [k \in 1..n |-> 0]

\* `body.len() as u16`
LenAsU16(body) == Len(body) % (U16Max + 1)

\* lines 109-113: vec![0; 16], the three header fields, then the body
FullRequest(command, command_index, body) ==
    write_u32(command_id(command)) \o write_u16(LenAsU16(body))
        \o write_u16(command_index) \o Zeros(HeaderLen - 8) \o body

(***************************************************************************)
(* Results                                                                 *)
(***************************************************************************)
NoResult == [kind |-> "none", body |-> <<>>, err |-> ""]

Ok(body) == [kind |-> "ok", body |-> body, err |-> ""]

Err(e) == [kind |-> "err", body |-> <<>>, err |-> e]

\* a failed debug_assert! aborts the call by panicking
Panic == [kind |-> "panic", body |-> <<>>, err |-> ""]

IsFailure(v) == v.kind \in {"err", "panic"}

(***************************************************************************)
(* State                                                                   *)
(***************************************************************************)
VARIABLES
    command_count,     \* GoXLRUSB.command_count (u16)
    stack,             \* activation records of perform_request, innermost last
    result,            \* what the last finished call returned to its caller
    cycles,            \* request cycles (one per write_control) of the current call
    polls,             \* read_control transfers issued since the last write_control
    not_ready,         \* how many of them returned Err(Pipe)
    last_read,         \* what the last of them returned (NoResult before the first)
    call,              \* the command the caller passed to the current call
    entry_count,       \* command_count when the caller made the current call
    framed,            \* non-reset frames built since the last ResetCommandIndex frame
    issued,            \* non-reset calls made since the session was fresh or overflowed
    caller_reset,      \* the caller has itself issued ResetCommandIndex
    calls,             \* calls made so far (bounded by MaxCalls)
    prev_failed,       \* the call before the current one returned an error
    descriptor,        \* GoXLRUSB.descriptor: the identifiers read when the session was opened
    sleeps,            \* sleep() calls made since the last write_control
    slept,             \* the durations (ms) of the sleep() calls of the current call
    framer,            \* the framing of lines 108-115 taken alone: its inputs and its frame
    devices,           \* what rusb::devices() returned to the last find_devices()
    found_devices,     \* what the last find_devices() returned
    location,          \* the GoXLRDevice passed to the last from_device()
    usb_devices,       \* what rusb::devices() returned to the last from_device()
    attached,          \* what the last from_device() returned
    preset_map,        \* HardtuneEffectBase.preset_map: the HardTuneEffect of each Preset
    hardtune_call,     \* the last call made on the hardtune component and what it returned
    hardtune_calls,    \* calls made on the hardtune component (bounded by MaxHardtuneCalls)
    parsed             \* the last ProfileSettings::parse_preset call and what it returned

timing_vars == << descriptor, sleeps, slept >>

session_vars == << command_count, stack, result, cycles, polls, not_ready,
                   last_read, call, entry_count, framed, issued, caller_reset, calls,
                   prev_failed, timing_vars >>

host_vars == << devices, found_devices, location, usb_devices, attached >>

profile_vars == << preset_map, hardtune_call, hardtune_calls, parsed >>

vars == << session_vars, framer, host_vars, profile_vars >>

NoFrame ==
    [command |-> "", command_index |-> 0, body |-> <<>>, full_request |-> <<>>,
     written |-> FALSE]

NoCall == [command |-> "", body |-> <<>>]

Frame(command, body, retry, role, pc, command_index) ==
    [command |-> command, body |-> body, retry |-> retry, role |-> role,
     pc |-> pc, command_index |-> command_index, i |-> 0,
     full_request |-> FullRequest(command, command_index, body)]

Top(stk) == stk[Len(stk)]

Pop(stk) == SubSeq(stk, 1, Len(stk) - 1)

ReplaceTop(stk, f) == [stk EXCEPT ![Len(stk)] = f]

\* the machine: the part of the state perform_request itself changes
Machine(stk, count, res) == [stack |-> stk, command_count |-> count, result |-> res]

(***************************************************************************)
(* perform_request, lines 98-113: sequence assignment and framing.         *)
(* The activation stops at the write_control of line 115.                  *)
(***************************************************************************)
IncrementSkipped(count) == count

\* line 105, on a u16
Increment(count) == (count + 1) % (U16Max + 1)

AtMaximumNever(count) == FALSE

\* line 102
AtMaximum(count) == count = U16Max

ResetCountKept(count) == count

\* lines 99-100
ResetCount(count) == 0

RequestDataRetryOff == FALSE

\* ExecutableGoXLR::request_data(command, body): runs perform_request
\* without a resync of its own
RequestDataRetry == TRUE

EnterReset(m, body, retry, role) ==
    LET count == ResetCount(m.command_count)
    IN  Machine(Append(m.stack, Frame("ResetCommandIndex", body, retry, role, "write", count)),
                count, m.result)

Enter(m, command, body, retry, role) ==
    IF command = "ResetCommandIndex" THEN EnterReset(m, body, retry, role)
    ELSE IF AtMaximum(m.command_count)
    THEN \* line 103: the activation waits for request_data(ResetCommandIndex, &[])
         EnterReset(Machine(Append(m.stack,
                                   Frame(command, body, retry, role, "overflow_reset", 0)),
                            m.command_count, m.result),
                    <<>>, RequestDataRetry, "overflow")
    ELSE LET count == Increment(m.command_count)
         IN  Machine(Append(m.stack, Frame(command, body, retry, role, "write", count)),
                     count, m.result)

(***************************************************************************)
(* Returning from an activation: the caller's continuation.                *)
(***************************************************************************)
RECURSIVE Return(_, _)

\* line 103, `?` and line 105
AfterOverflowReset(m, v) ==
    LET f == Top(m.stack)
        count == Increment(m.command_count)
    IN  Machine(ReplaceTop(m.stack,
                    Frame(f.command, f.body, f.retry, f.role, "write", count)),
                count, m.result)

\* the reset's value returned in place of line 176
AfterResyncResetNoRetry(m, v) == Return(m, v)

\* line 176 entered without the retry mark
AfterResyncResetUnmarked(m, v) ==
    LET f == Top(m.stack)
    IN  Enter(Machine(ReplaceTop(m.stack, [f EXCEPT !.pc = "retry"]),
                      m.command_count, m.result),
              f.command, f.body, f.retry, "retry")

\* line 173 `?` passed, line 176
AfterResyncReset(m, v) ==
    LET f == Top(m.stack)
    IN  Enter(Machine(ReplaceTop(m.stack, [f EXCEPT !.pc = "retry"]),
                      m.command_count, m.result),
              f.command, f.body, TRUE, "retry")

PropagatesNever(v) == FALSE

\* whether the `?` of lines 103 and 173 leaves the caller
Propagates(v) == IsFailure(v)

Return(m, v) ==
    LET popped == Machine(Pop(m.stack), m.command_count, m.result)
    IN  IF popped.stack = <<>> THEN Machine(<<>>, m.command_count, v)
        ELSE LET pc == Top(popped.stack).pc
             IN  IF v.kind = "panic" THEN Return(popped, v)
                 ELSE IF pc = "overflow_reset"
                 THEN IF Propagates(v) THEN Return(popped, v)
                      ELSE AfterOverflowReset(popped, v)
                 ELSE IF pc = "resync_reset"
                 THEN IF Propagates(v) THEN Return(popped, v)
                      ELSE AfterResyncReset(popped, v)
                 ELSE \* pc = "retry": line 176 is the value of the `return`
                      Return(popped, v)

(***************************************************************************)
(* perform_request, lines 117-123 and 135: the settle delay.               *)
(***************************************************************************)
\* rusb::DeviceDescriptor, as far as the code looks at it
Descriptor(vendor_id, product_id) == [vendor_id |-> vendor_id, product_id |-> product_id]

SleepTimeVendorChecked(d) ==
    IF d.vendor_id = VID_GOXLR /\ d.product_id = PID_GOXLR_MINI THEN 10 ELSE 3

\* lines 118-122, in milliseconds
SleepTime(d) == IF d.product_id = PID_GOXLR_MINI THEN 10 ELSE 3

(***************************************************************************)
(* perform_request, lines 128-187: the poll loop.                          *)
(* ReadStep gives the machine after one read_control returned rv, and how  *)
(* the request cycle stands then (outcome, error, body read).              *)
(***************************************************************************)
Step(m, outcome, err, body) == [machine |-> m, outcome |-> outcome, err |-> err, body |-> body]

\* line 128: `response` before any successful read
EmptyResponse == <<>>

\* the request sent again after a not-ready poll
OnNotReadyResend(m) ==
    Step(Machine(ReplaceTop(m.stack, [Top(m.stack) EXCEPT !.pc = "write"]),
                 m.command_count, m.result),
         "pending", "", <<>>)

\* lines 132-141 and, when the `for` runs out, line 187
OnNotReady(m) ==
    LET f == Top(m.stack)
    IN  IF f.i < PollLimit
        THEN IF f.i + 1 < PollLimit
             THEN Step(Machine(ReplaceTop(m.stack, [f EXCEPT !.i = f.i + 1]),
                               m.command_count, m.result),
                       "pending", "", <<>>)
             ELSE Step(Return(m, Ok(EmptyResponse)), "exhausted", "", <<>>)
        ELSE Step(Return(m, Err("Pipe")), "timeout", "Pipe", <<>>)

\* lines 142-146
OnReadError(m, e) == Step(Return(m, Err(e)), "read_error", e, <<>>)

OnShortKeepsPolling(m) == OnNotReady(m)

\* lines 149-155
OnShort(m) == Step(Return(m, Err("Pipe")), "short", "Pipe", <<>>)

\* line 149
IsShort(bytes) == Len(bytes) < HeaderLen

\* the resync of lines 173-176 whatever the retry flag
OnMismatchAlways(m) ==
    LET f == Top(m.stack)
    IN  Step(Enter(Machine(ReplaceTop(m.stack, [f EXCEPT !.pc = "resync_reset", !.i = 0]),
                           m.command_count, m.result),
                   "ResetCommandIndex", <<>>, TRUE, "resync"),
             "mismatch", "", <<>>)

\* line 176 without the reset of line 173
OnMismatchNoReset(m) ==
    LET f == Top(m.stack)
    IN  IF ~f.retry
        THEN Step(Enter(Machine(ReplaceTop(m.stack, [f EXCEPT !.pc = "retry", !.i = 0]),
                                m.command_count, m.result),
                        f.command, f.body, TRUE, "retry"),
                  "mismatch", "", <<>>)
        ELSE Step(Return(m, Err("Other")), "mismatch", "Other", <<>>)

\* the reset of line 173 run with retry = false
OnMismatchResetRetryable(m) ==
    LET f == Top(m.stack)
    IN  IF ~f.retry
        THEN Step(Enter(Machine(ReplaceTop(m.stack, [f EXCEPT !.pc = "resync_reset", !.i = 0]),
                                m.command_count, m.result),
                        "ResetCommandIndex", <<>>, FALSE, "resync"),
                  "mismatch", "", <<>>)
        ELSE Step(Return(m, Err("Other")), "mismatch", "Other", <<>>)

\* a mismatching response skipped like a not-ready poll
OnMismatchKeepsPolling(m) == OnNotReady(m)

\* lines 171-180
OnMismatch(m) ==
    LET f == Top(m.stack)
    IN  IF ~f.retry
        THEN Step(Enter(Machine(ReplaceTop(m.stack, [f EXCEPT !.pc = "resync_reset", !.i = 0]),
                                m.command_count, m.result),
                        "ResetCommandIndex", <<>>, TRUE, "resync"),
                  "mismatch", "", <<>>)
        ELSE Step(Return(m, Err("Other")), "mismatch", "Other", <<>>)

\* lines 183-187
OnMatch(m, response, response_length, debug) ==
    IF Len(response) = response_length
    THEN Step(Return(m, Ok(response)), "match", "", response)
    ELSE IF debug
    THEN Step(Return(m, Panic), "length_panic", "", response)
    ELSE Step(Return(m, Ok(response)), "length_differs", "", response)

MismatchedAlways(response_command_index, command_index) == TRUE

\* line 161
Mismatched(response_command_index, command_index) ==
    response_command_index # command_index

\* a response whose command identifier is not the request's taken as a mismatch
ReadStepChecksId(m, rv, debug) ==
    LET f == Top(m.stack)
    IN  IF rv.kind = "err" /\ rv.err = "Pipe" THEN OnNotReady(m)
        ELSE IF rv.kind = "err" THEN OnReadError(m, rv.err)
        ELSE IF IsShort(rv.body) THEN OnShort(m)
        ELSE LET response_header == SubSeq(rv.body, 1, HeaderLen)
                 response == SubSeq(rv.body, HeaderLen + 1, Len(rv.body))
                 response_length == read_u16(response_header, 4)
                 response_command_index == read_u16(response_header, 6)
             IN  IF \/ Mismatched(response_command_index, f.command_index)
                    \/ SubSeq(response_header, 1, 4) # SubSeq(f.full_request, 1, 4)
                 THEN OnMismatch(m)
                 ELSE OnMatch(m, response, response_length, debug)

\* lines 131-187 for one iteration; rv is what read_control returned
ReadStep(m, rv, debug) ==
    LET f == Top(m.stack)
    IN  IF rv.kind = "err" /\ rv.err = "Pipe" THEN OnNotReady(m)
        ELSE IF rv.kind = "err" THEN OnReadError(m, rv.err)
        ELSE IF IsShort(rv.body) THEN OnShort(m)
        ELSE LET response_header == SubSeq(rv.body, 1, HeaderLen)
                 response == SubSeq(rv.body, HeaderLen + 1, Len(rv.body))
                 response_length == read_u16(response_header, 4)
                 response_command_index == read_u16(response_header, 6)
             IN  IF Mismatched(response_command_index, f.command_index)
                 THEN OnMismatch(m)
                 ELSE OnMatch(m, response, response_length, debug)

\* the sequence number given back when the write fails
WriteStepRollsBack(m, r) ==
    IF r = "ok"
    THEN Machine(ReplaceTop(m.stack, [Top(m.stack) EXCEPT !.pc = "poll", !.i = 0]),
                 m.command_count, m.result)
    ELSE Return(Machine(m.stack, (m.command_count + U16Max) % (U16Max + 1), m.result), Err(r))

\* line 115
WriteStep(m, r) ==
    IF r = "ok"
    THEN Machine(ReplaceTop(m.stack, [Top(m.stack) EXCEPT !.pc = "poll", !.i = 0]),
                 m.command_count, m.result)
    ELSE Return(m, Err(r))

(***************************************************************************)
(* The device: what a read_control can deliver                             *)
(***************************************************************************)
ResponseBytes(id, len, seq, body) ==
    write_u32(id) \o write_u16(len) \o write_u16(seq) \o Zeros(HeaderLen - 8) \o body

\* sequence numbers a response may carry: the awaited one and another one
ResponseSeqs(command_index) == {command_index, (command_index + 1) % (U16Max + 1)}

\* the header may echo the request's command or carry another one
ResponseCommands(command) ==
    {command, IF command = "SystemInfo" THEN "ResetCommandIndex" ELSE "SystemInfo"}

\* the declared length is that of the body, or 0 whatever the body
FullResponses(f) ==
    UNION { { ResponseBytes(command_id(c), len, seq, body) :
                c \in ResponseCommands(f.command), seq \in ResponseSeqs(f.command_index),
                len \in {Len(body), 0} } : body \in Bodies }

ShortResponses == {<<>>, Zeros(HeaderLen - 1)}

\* what read_control can return to the activation f
ReadResults(f) ==
    {Err(e) : e \in RusbErrors} \cup {Ok(bytes) : bytes \in FullResponses(f) \cup ShortResponses}

WriteResults == {"ok"} \cup RusbErrors

(***************************************************************************)
(* The USB bus as the locator and the session resolution see it            *)
(***************************************************************************)
\* rusb::Device: its place on the bus, whether device_descriptor() is Ok,
\* and the descriptor it then gives
Device(bus_number, address, readable, d) ==
    [bus_number |-> bus_number, address |-> address, readable |-> readable, descriptor |-> d]

\* base::GoXLRDevice
GoXLRDevice(bus_number, address) == [bus_number |-> bus_number, address |-> address]

NoLocation == GoXLRDevice(0, 0)

\* devices that may be attached: both hardware variants, another vendor's
\* device, another product of the vendor, a device whose descriptor cannot
\* be read; the second and the third take the same place on the bus
Candidates ==
    << Device(1, 2, TRUE, Descriptor(VID_GOXLR, PID_GOXLR_FULL)),
       Device(1, 3, TRUE, Descriptor(VID_GOXLR, PID_GOXLR_MINI)),
       Device(1, 3, TRUE, Descriptor(1133, PID_GOXLR_MINI)),
       Device(2, 2, TRUE, Descriptor(VID_GOXLR, 36833)),
       Device(2, 3, FALSE, Descriptor(VID_GOXLR, PID_GOXLR_FULL)) >>

Locations == {GoXLRDevice(Candidates[k].bus_number, Candidates[k].address) :
                 k \in 1..Len(Candidates)}

SamePlace(a, b) == a.bus_number = b.bus_number /\ a.address = b.address

\* sets of devices attached together: no two at the same place
Attachable ==
    {S \in SUBSET {Candidates[k] : k \in 1..Len(Candidates)} :
        \A a, b \in S : SamePlace(a, b) => a = b}

\* what rusb::devices() can return
NoDevices == [kind |-> "none", list |-> <<>>]

Enumerations ==
    {[kind |-> "err", list |-> <<>>]}
        \cup {[kind |-> "ok", list |-> SelectSeq(Candidates, LAMBDA d : d \in S)] :
                 S \in Attachable}

\* what Device::open() can return
OpenResults == {"ok", "Access"}

(***************************************************************************)
(* find_devices, lines 194-217                                             *)
(***************************************************************************)
IsGoXLRAnyProduct(d) == d.vendor_id = VID_GOXLR

\* lines 203-205
IsGoXLR(d) ==
    /\ d.vendor_id = VID_GOXLR
    /\ (d.product_id = PID_GOXLR_FULL \/ d.product_id = PID_GOXLR_MINI)

find_devices(ds) ==
    IF ds.kind = "ok"
    THEN LET kept == SelectSeq(ds.list, LAMBDA device : device.readable /\ IsGoXLR(device.descriptor))
         IN  [k \in 1..Len(kept) |-> GoXLRDevice(kept[k].bus_number, kept[k].address)]
    ELSE <<>>

(***************************************************************************)
(* GoXLRUSB::find_device, lines 26-39, and from_device, lines 82-94        *)
(***************************************************************************)
NotFound == Err("Specified Device not Found!")

AtLocationByAddress(usb_device, device) == usb_device.address = device.address

\* lines 29-30
AtLocation(usb_device, device) ==
    usb_device.bus_number = device.bus_number /\ usb_device.address = device.address

Resolved(usb_device) == [kind |-> "ok", device |-> usb_device]

FindGoXLRDevice(ds, device) ==
    LET usable == SelectSeq(ds.list, LAMBDA usb_device :
                      AtLocation(usb_device, device) /\ usb_device.readable
                          /\ IsGoXLR(usb_device.descriptor))
    IN  IF ds.kind = "ok" /\ usable # <<>> THEN Resolved(usable[1]) ELSE NotFound

\* the first device at the location whose descriptor can be read
find_device(ds, device) ==
    LET usable == SelectSeq(ds.list, LAMBDA usb_device :
                      AtLocation(usb_device, device) /\ usb_device.readable)
    IN  IF ds.kind = "ok" /\ usable # <<>> THEN Resolved(usable[1]) ELSE NotFound

\* what from_device returns: the error of line 84 or of line 85, or the
\* new session (its descriptor; its counter is FreshCount)
from_device(ds, device, opened) ==
    LET found == find_device(ds, device)
    IN  IF found.kind # "ok" THEN found
        ELSE IF opened # "ok" THEN Err(opened)
        ELSE [kind |-> "ok", descriptor |-> found.device.descriptor]

\* line 91
FreshCount(count) == 0

(***************************************************************************)
(* profile crate: text of attribute values and element names, as sequences *)
(* of characters                                                           *)
(***************************************************************************)
DigitChars == << "0", "1", "2", "3", "4", "5", "6", "7", "8", "9" >>

IsDigit(c) == \E d \in 1..10 : DigitChars[d] = c

DigitValue(c) == (CHOOSE d \in 1..10 : DigitChars[d] = c) - 1

RECURSIVE DecimalValue(_)
DecimalValue(digits) ==
    IF digits = <<>> THEN 0
    ELSE 10 * DecimalValue(SubSeq(digits, 1, Len(digits) - 1)) + DigitValue(digits[Len(digits)])

AllDigits(text) == \A k \in 1..Len(text) : IsDigit(text[k])

\* str::parse::<f32>() for decimal notation without exponent: an optional
\* sign, then "NaN", "inf", or digits with an optional point; the value is
\* kept as its sign, its whole part and whether a fraction follows
ExpectedFloat == [kind |-> "err", neg |-> FALSE, whole |-> 0]

ParseFloat(text) ==
    LET signed == text # <<>> /\ text[1] \in {"-", "+"}
        neg == text # <<>> /\ text[1] = "-"
        rest == IF signed THEN SubSeq(text, 2, Len(text)) ELSE text
        points == {k \in 1..Len(rest) : rest[k] = "."}
        point == IF points = {} THEN Len(rest) + 1 ELSE CHOOSE k \in points : TRUE
        whole == SubSeq(rest, 1, point - 1)
        fraction == SubSeq(rest, point + 1, Len(rest))
    IN  IF rest = << "N", "a", "N" >> THEN [kind |-> "nan", neg |-> neg, whole |-> 0]
        ELSE IF rest = << "i", "n", "f" >> THEN [kind |-> "inf", neg |-> neg, whole |-> 0]
        ELSE IF /\ Cardinality(points) <= 1
                /\ Len(whole) + Len(fraction) >= 1
                /\ AllDigits(whole)
                /\ AllDigits(fraction)
        THEN [kind |-> "num", neg |-> neg, whole |-> DecimalValue(whole)]
        ELSE ExpectedFloat

\* `f as u8`, `f as u16`: truncation towards zero, saturating; NaN gives 0
FloatAs(f, max) ==
    IF f.kind = "nan" \/ f.neg THEN 0
    ELSE IF f.kind = "inf" THEN max
    ELSE IF f.whole > max THEN max ELSE f.whole

U8Max == 255

(***************************************************************************)
(* profile/src/components/hardtune.rs                                      *)
(***************************************************************************)
\* the presets, by the id parse_hardtune_preset stores them under (lines 132-144)
PresetList == << "Preset1", "Preset2", "Preset3", "Preset4", "Preset5", "Preset6" >>

Presets == {PresetList[k] : k \in 1..Len(PresetList)}

\* lines 356-366
HardTuneStyles == << "Normal", "Medium", "Hard" >>

\* the uiIndex property of a style
UiIndex(style) ==
    CASE style = "Normal" -> << "0" >>
      [] style = "Medium" -> << "1" >>
      [] style = "Hard"   -> << "2" >>

\* HardTuneSource::from_str, lines 374-390 ("" when the text names no source)
HardTuneSourceFromStr(text) ==
    CASE text = << "A", "L", "L" >>                -> "All"
      [] text = << "M", "U", "S", "I", "C" >>      -> "Music"
      [] text = << "G", "A", "M", "E" >>           -> "Game"
      [] text = << "L", "I", "N", "E", "I", "N" >> -> "LineIn"
      [] text = << "S", "Y", "S", "T", "E", "M" >> -> "System"
      [] OTHER                                     -> ""

\* HardTuneEffect::new(), lines 249-261 (source "None" stands for None)
HardTuneEffectNew ==
    [state |-> FALSE, style |-> "Normal", key_source |-> 0, amount |-> 0, window |-> 0,
     rate |-> 0, scale |-> 0, pitch_amt |-> 0, source |-> "None"]

\* HardtunePreset::get_preset, lines 406-431
get_preset(style) ==
    CASE style = "Normal" -> [amount |-> 70, window |-> 20, rate |-> 20, scale |-> 5, pitch_amt |-> 0]
      [] style = "Medium" -> [amount |-> 53, window |-> 20, rate |-> 99, scale |-> 5, pitch_amt |-> 0]
      [] style = "Hard"   -> [amount |-> 100, window |-> 60, rate |-> 100, scale |-> 5, pitch_amt |-> 0]

\* what a setter gives: the effect after it and whether it returned Ok
Set(effect, ok) == [effect |-> effect, ok |-> ok]

\* lines 293-299
set_amount(effect, value) ==
    IF value > 100 THEN Set(effect, FALSE) ELSE Set([effect EXCEPT !.amount = value], TRUE)

\* lines 304-310
set_window(effect, value) ==
    IF value > 600 THEN Set(effect, FALSE) ELSE Set([effect EXCEPT !.window = value], TRUE)

\* lines 315-321
set_rate(effect, value) ==
    IF value > 100 THEN Set(effect, FALSE) ELSE Set([effect EXCEPT !.rate = value], TRUE)

\* lines 326-328
set_scale(effect, value) == [effect EXCEPT !.scale = value]

\* lines 333-339
set_pitch_amt(effect, value) ==
    IF value # 0 THEN Set(effect, FALSE) ELSE Set([effect EXCEPT !.pitch_amt = value], TRUE)

\* lines 273-284: each `?` returns with what was set so far
set_style(effect, style) ==
    LET preset == get_preset(style)
        a == set_amount([effect EXCEPT !.style = style], preset.amount)
        w == set_window(a.effect, preset.window)
        r == set_rate(w.effect, preset.rate)
        p == set_pitch_amt(set_scale(r.effect, preset.scale), preset.pitch_amt)
    IN  IF ~a.ok THEN a
        ELSE IF ~w.ok THEN w
        ELSE IF ~r.ok THEN r
        ELSE p

\* lines 344-346
set_source(effect, source) == [effect EXCEPT !.source = source]

\* xml::attribute::OwnedAttribute: the local name and the value
Attribute(local_name, value) == [local_name |-> local_name, value |-> value]

\* lines 87-92: the first style whose uiIndex is the value, else the style kept
StyleOfIndex(style, value) ==
    LET found == {k \in 1..Len(HardTuneStyles) : UiIndex(HardTuneStyles[k]) = value}
    IN  IF found = {} THEN style
        ELSE HardTuneStyles[CHOOSE k \in found : \A j \in found : k <= j]

Parsed(preset) == [kind |-> "ok", preset |-> preset]

\* the `?` of lines 97-121
ParseFailed(preset) == [kind |-> "err", preset |-> preset]

RECURSIVE ParseAttributes(_, _)
\* lines 81-129: the loop over the attributes, from the first one left
ParseAttributes(preset, attributes) ==
    IF attributes = <<>> THEN Parsed(preset)
    ELSE LET attr == Head(attributes)
             rest == Tail(attributes)
             f == ParseFloat(attr.value)
             source == HardTuneSourceFromStr(attr.value)
         IN  IF attr.local_name = "hardtuneEffectstate"
             THEN ParseAttributes([preset EXCEPT !.state = (attr.value = << "1" >>)], rest)
             ELSE IF attr.local_name = "HARDTUNE_STYLE"
             THEN ParseAttributes([preset EXCEPT !.style = StyleOfIndex(preset.style, attr.value)], rest)
             ELSE IF attr.local_name = "HARDTUNE_KEYSOURCE"
             THEN IF f.kind = "err" THEN ParseFailed(preset)
                  ELSE ParseAttributes([preset EXCEPT !.key_source = FloatAs(f, U8Max)], rest)
             ELSE IF attr.local_name = "HARDTUNE_AMOUNT"
             THEN IF f.kind = "err" THEN ParseFailed(preset)
                  ELSE ParseAttributes([preset EXCEPT !.amount = FloatAs(f, U8Max)], rest)
             ELSE IF attr.local_name = "HARDTUNE_WINDOW"
             THEN IF f.kind = "err" THEN ParseFailed(preset)
                  ELSE ParseAttributes([preset EXCEPT !.window = FloatAs(f, U16Max)], rest)
             ELSE IF attr.local_name = "HARDTUNE_RATE"
             THEN IF f.kind = "err" THEN ParseFailed(preset)
                  ELSE ParseAttributes([preset EXCEPT !.rate = FloatAs(f, U8Max)], rest)
             ELSE IF attr.local_name = "HARDTUNE_SCALE"
             THEN IF f.kind = "err" THEN ParseFailed(preset)
                  ELSE ParseAttributes([preset EXCEPT !.scale = FloatAs(f, U8Max)], rest)
             ELSE IF attr.local_name = "HARDTUNE_PITCH_AMT"
             THEN IF f.kind = "err" THEN ParseFailed(preset)
                  ELSE ParseAttributes([preset EXCEPT !.pitch_amt = FloatAs(f, U8Max)], rest)
             ELSE IF attr.local_name = "HARDTUNE_SOURCE"
             THEN IF source = "" THEN ParseFailed(preset)
                  ELSE ParseAttributes([preset EXCEPT !.source = source], rest)
             ELSE ParseAttributes(preset, rest)

\* lines 132-144
StorePreset(map, id, preset) ==
    IF id \in 1..Len(PresetList) THEN [map EXCEPT ![PresetList[id]] = preset] ELSE map

\* lines 75-147: the preset map after the call and whether it returned Ok
parse_hardtune_preset(map, id, attributes) ==
    LET r == ParseAttributes(HardTuneEffectNew, attributes)
    IN  IF r.kind = "ok" THEN [map |-> StorePreset(map, id, r.preset), ok |-> TRUE]
        ELSE [map |-> map, ok |-> FALSE]

HardtuneCall(op, preset, before, ok) ==
    [op |-> op, preset |-> preset, before |-> before, ok |-> ok]

NoHardtuneCall == HardtuneCall("", "", HardTuneEffectNew, TRUE)

(***************************************************************************)
(* profile/src/profile.rs, ProfileSettings::parse_preset, lines 618-630    *)
(***************************************************************************)
\* Preset::iter(): the presets in the order crate::Preset declares them
PresetIter == PresetList

PresetResult(kind, preset, err) == [kind |-> kind, preset |-> preset, err |-> err]

\* line 629
UnableToParse == PresetResult("err", "", "Unable to Parse Preset from Number")

\* the `?` of line 623 on u8::from_str of the last character
ExpectedInt == PresetResult("err", "", "ParseIntError")

\* `id - 1` on a u8: the overflow check of the build panics, or the value wraps
PresetPanic == PresetResult("panic", "", "attempt to subtract with overflow")

NotParsed == [key |-> <<>>, overflow_checks |-> FALSE, returned |-> PresetResult("none", "", "")]

parse_preset(key, overflow_checks) ==
    IF key = <<>> THEN UnableToParse
    ELSE LET s == key[Len(key)]
         IN  IF ~IsDigit(s) THEN ExpectedInt
             ELSE LET id == DigitValue(s)
                      n == (id + U8Max) % (U8Max + 1)
                  IN  IF id = 0 /\ overflow_checks THEN PresetPanic
                      ELSE IF n + 1 <= Len(PresetIter)
                      THEN PresetResult("ok", PresetIter[n + 1], "")
                      ELSE UnableToParse

(***************************************************************************)
(* Actions                                                                 *)
(***************************************************************************)
Cycle(f, outcome, err, body) ==
    [role |-> f.role, command |-> f.command, retry |-> f.retry, seq |-> f.command_index,
     request |-> f.body, full_request |-> f.full_request, outcome |-> outcome, err |-> err, body |-> body]

Running == stack # <<>>

PendingReads == IF Running THEN ReadResults(Top(stack)) ELSE {}

\* a session with no call running that has carried count non-reset
\* commands since it was opened on a device with descriptor d
Opened(count, d) ==
    /\ command_count = count
    /\ descriptor = d
    /\ stack = <<>>
    /\ result = NoResult
    /\ cycles = <<>>
    /\ polls = 0
    /\ not_ready = 0
    /\ last_read = NoResult
    /\ call = NoCall
    /\ entry_count = count
    /\ framed = count
    /\ issued = count
    /\ caller_reset = FALSE
    /\ prev_failed = FALSE
    /\ sleeps = 0
    /\ slept = {}

\* nothing enumerated, nothing framed on its own
Untouched ==
    /\ framer = NoFrame
    /\ devices = NoDevices
    /\ found_devices = <<>>
    /\ location = NoLocation
    /\ usb_devices = NoDevices
    /\ attached = NoResult
    /\ preset_map = [preset \in Presets |-> HardTuneEffectNew]
    /\ hardtune_call = NoHardtuneCall
    /\ hardtune_calls = 0
    /\ parsed = NotParsed

Init ==
    /\ \E count \in InitialCounts : Opened(count, Descriptor(VID_GOXLR, PID_GOXLR_FULL))
    /\ calls = 0
    /\ Untouched

\* the caller invokes perform_request(command, body, false)
Execute(command, body) ==
    /\ ~Running
    /\ result.kind # "panic"
    /\ calls < MaxCalls
    /\ LET m == Enter(Machine(<<>>, command_count, NoResult), command, body, FALSE, "top")
       IN  /\ stack' = m.stack
           /\ command_count' = m.command_count
           /\ result' = m.result
    /\ cycles' = <<>>
    /\ polls' = 0
    /\ not_ready' = 0
    /\ last_read' = NoResult
    /\ call' = [command |-> command, body |-> body]
    /\ entry_count' = command_count
    /\ issued' = IF command = "ResetCommandIndex" THEN issued
                 ELSE IF command_count = U16Max THEN 1 ELSE issued + 1
    /\ caller_reset' = (caller_reset \/ command = "ResetCommandIndex")
    /\ calls' = calls + 1
    /\ prev_failed' = (result.kind = "err")
    /\ sleeps' = 0
    /\ slept' = {}
    /\ UNCHANGED << framed, descriptor, framer, host_vars, profile_vars >>

\* line 115: the outbound control transfer, accepted or failed by the transport
WriteControl(r) ==
    /\ Running
    /\ Top(stack).pc = "write"
    /\ \E f \in {Top(stack)}, m \in {WriteStep(Machine(stack, command_count, result), r)} :
           /\ stack' = m.stack
           /\ command_count' = m.command_count
           /\ result' = m.result
           \* the log keeps the body read for the current request cycle only
           /\ cycles' = Append([k \in 1..Len(cycles) |-> [cycles[k] EXCEPT !.body = <<>>]],
                               Cycle(f, IF r = "ok" THEN "pending" ELSE "write_error",
                                     IF r = "ok" THEN "" ELSE r, <<>>))
           /\ framed' = IF f.command = "ResetCommandIndex" THEN 0 ELSE framed + 1
    \* line 123
    /\ sleeps' = IF r = "ok" THEN 1 ELSE 0
    /\ slept' = IF r = "ok" THEN slept \cup {SleepTime(descriptor)} ELSE slept
    /\ polls' = 0
    /\ not_ready' = 0
    /\ last_read' = NoResult
    /\ UNCHANGED << call, entry_count, issued, caller_reset, calls, prev_failed, descriptor, framer, host_vars, profile_vars >>

\* line 131: one inbound control transfer and the rest of the loop iteration;
\* debug says whether the build evaluates the debug_assert! of line 183
ReadControl(rv, debug) ==
    /\ Running
    /\ Top(stack).pc = "poll"
    /\ \E f \in {Top(stack)}, s \in {ReadStep(Machine(stack, command_count, result), rv, debug)} :
           /\ stack' = s.machine.stack
           /\ command_count' = s.machine.command_count
           /\ result' = s.machine.result
           /\ cycles' = [cycles EXCEPT ![Len(cycles)] = Cycle(f, s.outcome, s.err, s.body)]
           \* line 135
           /\ sleeps' = IF s.outcome \in {"pending", "exhausted"} THEN sleeps + 1 ELSE sleeps
           /\ slept' = IF s.outcome \in {"pending", "exhausted"}
                        THEN slept \cup {SleepTime(descriptor)} ELSE slept
    /\ polls' = polls + 1
    /\ not_ready' = IF rv = Err("Pipe") THEN not_ready + 1 ELSE not_ready
    /\ last_read' = rv
    /\ UNCHANGED << call, entry_count, framed, issued, caller_reset, calls, prev_failed, descriptor, framer, host_vars, profile_vars >>

Next ==
    \/ \E command \in Commands, body \in Bodies : Execute(command, body)
    \/ \E r \in WriteResults : WriteControl(r)
    \/ \E rv \in PendingReads, debug \in BOOLEAN : ReadControl(rv, debug)

Spec == Init /\ [][Next]_vars

(***************************************************************************)
(* The framing of lines 108-115 on its own, for any command, sequence      *)
(* number and body: the frame is built and handed to write_control.        *)
(***************************************************************************)
FramerSeqs == {0, 1, 2, 255, 256, 4660, 65534, 65535}

\* a body of n bytes that are not all alike
Ramp(n) == [k \in 1..n |-> k % 256]

FramerBodies == {<<>>, <<7>>, <<1, 2, 3>>, Ramp(U16Max), Ramp(U16Max + 1)}

FrameRequest(command, command_index, body) ==
    /\ framer' = [command |-> command, command_index |-> command_index, body |-> body,
                  full_request |-> FullRequest(command, command_index, body),
                  written |-> TRUE]
    /\ UNCHANGED << session_vars, host_vars, profile_vars >>

FramerInit == Init /\ command_count = 0

FramerNext ==
    \E command \in Commands, command_index \in FramerSeqs, body \in FramerBodies :
        FrameRequest(command, command_index, body)

FramerSpec == FramerInit /\ [][FramerNext]_vars

(***************************************************************************)
(* The locator and the session resolution, for any state of the bus        *)
(***************************************************************************)
\* find_devices() while rusb::devices() returns ds
FindDevices(ds) ==
    /\ ~Running
    /\ devices' = ds
    /\ found_devices' = find_devices(ds)
    /\ UNCHANGED << session_vars, framer, location, usb_devices, attached, profile_vars >>

\* from_device(device) while rusb::devices() returns ds and Device::open()
\* returns opened; on success the session is the new one
FromDevice(ds, device, opened) ==
    /\ ~Running
    /\ location' = device
    /\ usb_devices' = ds
    /\ \E r \in {from_device(ds, device, opened)} :
           IF r.kind = "ok"
           THEN /\ attached' = Ok(<<>>)
                /\ command_count' = FreshCount(command_count)
                /\ descriptor' = r.descriptor
                /\ entry_count' = FreshCount(command_count)
                /\ framed' = 0
                /\ issued' = 0
                /\ caller_reset' = FALSE
                /\ prev_failed' = FALSE
                /\ result' = NoResult
                /\ cycles' = <<>>
                /\ polls' = 0
                /\ not_ready' = 0
                /\ last_read' = NoResult
                /\ call' = NoCall
                /\ sleeps' = 0
                /\ slept' = {}
                /\ UNCHANGED << stack, calls >>
           ELSE /\ attached' = r
                /\ UNCHANGED session_vars
    /\ UNCHANGED << framer, devices, found_devices, profile_vars >>

LocatorInit == Init

LocatorNext ==
    \/ \E ds \in Enumerations : FindDevices(ds)
    \/ \E ds \in Enumerations, device \in Locations, opened \in OpenResults :
          FromDevice(ds, device, opened)

LocatorSpec == LocatorInit /\ [][LocatorNext]_vars

(***************************************************************************)
(* A session opened on any kind of device, observed for its settle delays  *)
(***************************************************************************)
SessionDescriptors ==
    {Descriptor(VID_GOXLR, PID_GOXLR_FULL), Descriptor(VID_GOXLR, PID_GOXLR_MINI),
     Descriptor(1133, PID_GOXLR_MINI), Descriptor(VID_GOXLR, 36833)}

TimingInit ==
    /\ \E d \in SessionDescriptors : Opened(FreshCount(0), d)
    /\ calls = MaxCalls - MaxTimedCalls
    /\ Untouched

TimingSpec == TimingInit /\ [][Next]_vars

(***************************************************************************)
(* The hardtune component of a profile: its presets are changed through    *)
(* get_preset_mut (hardtune.rs:228-230) and the setters, and filled from   *)
(* the attributes of the profile's preset elements                        *)
(***************************************************************************)
\* the presets the setters are called on
EditedPresets == {"Preset1", "Preset6"}

Amounts == {50, 100, 101}

Windows == {600, 601}

Rates == {100, 101}

Sources == {"All", "Game"}

\* the ids handed to parse_hardtune_preset
PresetIds == {0, 1, 6, 7}

\* the attribute lists of preset elements
AttributeLists ==
    { << >>,
      << Attribute("hardtuneEffectstate", << "1" >>),
         Attribute("HARDTUNE_STYLE", << "2" >>),
         Attribute("HARDTUNE_AMOUNT", << "7", "0", ".", "9" >>),
         Attribute("HARDTUNE_WINDOW", << "6", "0", "0" >>),
         Attribute("HARDTUNE_RATE", << "2", "0" >>),
         Attribute("HARDTUNE_SCALE", << "5" >>),
         Attribute("HARDTUNE_PITCH_AMT", << "0" >>),
         Attribute("HARDTUNE_KEYSOURCE", << "3" >>),
         Attribute("HARDTUNE_SOURCE", << "G", "A", "M", "E" >>) >>,
      << Attribute("HARDTUNE_AMOUNT", << "1", "0", "0" >>) >>,
      << Attribute("HARDTUNE_AMOUNT", << "1", "0", "1" >>) >>,
      << Attribute("HARDTUNE_AMOUNT", << "-", "1" >>) >>,
      << Attribute("HARDTUNE_WINDOW", << "6", "0", "1" >>) >>,
      << Attribute("HARDTUNE_WINDOW", << "7", "0", "0", "0", "0" >>) >>,
      << Attribute("HARDTUNE_RATE", << "2", "5", "6" >>) >>,
      << Attribute("HARDTUNE_RATE", << "N", "a", "N" >>) >>,
      << Attribute("HARDTUNE_RATE", << "x" >>) >>,
      << Attribute("HARDTUNE_PITCH_AMT", << "1" >>) >>,
      << Attribute("HARDTUNE_STYLE", << "9" >>),
         Attribute("hardtuneEffectstate", << "0" >>) >>,
      << Attribute("HARDTUNE_AMOUNT", << "1", "0", "1" >>),
         Attribute("HARDTUNE_SOURCE", << "b", "o", "g", "u", "s" >>) >>,
      << Attribute("HARDTUNE_SOURCE", << "A", "L", "L" >>),
         Attribute("colour", << "0" >>),
         Attribute("HARDTUNE_SCALE", << "i", "n", "f" >>) >> }

HardtuneUnchanged == UNCHANGED << session_vars, framer, host_vars, parsed >>

\* a setter called on a preset of the component
Called(op, preset, set) ==
    /\ hardtune_calls' = hardtune_calls + 1
    /\ preset_map' = [preset_map EXCEPT ![preset] = set.effect]
    /\ hardtune_call' = HardtuneCall(op, preset, preset_map, set.ok)
    /\ HardtuneUnchanged

SetAmount(preset, value) ==
    /\ hardtune_calls < MaxHardtuneCalls
    /\ Called("set_amount", preset, set_amount(preset_map[preset], value))

SetWindow(preset, value) ==
    /\ hardtune_calls < MaxHardtuneCalls
    /\ Called("set_window", preset, set_window(preset_map[preset], value))

SetRate(preset, value) ==
    /\ hardtune_calls < MaxHardtuneCalls
    /\ Called("set_rate", preset, set_rate(preset_map[preset], value))

SetStyle(preset, style) ==
    /\ hardtune_calls < MaxHardtuneCalls
    /\ Called("set_style", preset, set_style(preset_map[preset], style))

SetSource(preset, source) ==
    /\ hardtune_calls < MaxHardtuneCalls
    /\ Called("set_source", preset, Set(set_source(preset_map[preset], source), TRUE))

ParseHardtunePreset(id, attributes) ==
    /\ hardtune_calls < MaxHardtuneCalls
    /\ hardtune_calls' = hardtune_calls + 1
    /\ \E r \in {parse_hardtune_preset(preset_map, id, attributes)} :
          /\ preset_map' = r.map
          /\ hardtune_call' = HardtuneCall("parse_hardtune_preset", id, preset_map, r.ok)
    /\ HardtuneUnchanged

HardtuneInit == Init

HardtuneNext ==
    \/ \E preset \in EditedPresets, value \in Amounts : SetAmount(preset, value)
    \/ \E preset \in EditedPresets, value \in Windows : SetWindow(preset, value)
    \/ \E preset \in EditedPresets, value \in Rates : SetRate(preset, value)
    \/ \E preset \in EditedPresets, k \in 1..Len(HardTuneStyles) :
          SetStyle(preset, HardTuneStyles[k])
    \/ \E preset \in EditedPresets, source \in Sources : SetSource(preset, source)
    \/ \E id \in PresetIds, attributes \in AttributeLists :
          ParseHardtunePreset(id, attributes)

HardtuneSpec == HardtuneInit /\ [][HardtuneNext]_vars

(***************************************************************************)
(* The element names of a profile handed to parse_preset                  *)
(***************************************************************************)
\* the names the elements of lines 286-358 start with, and no name at all
ElementNames ==
    { << >>,
      << "m", "e", "g", "a", "p", "h", "o", "n", "e", "E", "f", "f", "e", "c", "t", "p", "r", "e", "s", "e", "t" >>,
      << "r", "o", "b", "o", "t", "E", "f", "f", "e", "c", "t", "p", "r", "e", "s", "e", "t" >>,
      << "h", "a", "r", "d", "t", "u", "n", "e", "E", "f", "f", "e", "c", "t", "p", "r", "e", "s", "e", "t" >>,
      << "r", "e", "v", "e", "r", "b", "E", "n", "c", "o", "d", "e", "r", "p", "r", "e", "s", "e", "t" >>,
      << "e", "c", "h", "o", "E", "n", "c", "o", "d", "e", "r", "p", "r", "e", "s", "e", "t" >>,
      << "p", "i", "t", "c", "h", "E", "n", "c", "o", "d", "e", "r", "p", "r", "e", "s", "e", "t" >>,
      << "g", "e", "n", "d", "e", "r", "E", "n", "c", "o", "d", "e", "r", "p", "r", "e", "s", "e", "t" >> }

\* what follows the name: nothing, or one more character
Suffixes ==
    {<< >>} \cup {<< DigitChars[d] >> : d \in 1..10} \cup {<< "a" >>, << "-" >>, << "+" >>, << " " >>}

Keys == {name \o suffix : name \in ElementNames, suffix \in Suffixes}

\* overflow_checks: whether the build checks integer overflow (it does in
\* a debug build, it does not in a release build)
ParsePreset(key, overflow_checks) ==
    /\ parsed' = [key |-> key, overflow_checks |-> overflow_checks,
                  returned |-> parse_preset(key, overflow_checks)]
    /\ UNCHANGED << session_vars, framer, host_vars, preset_map, hardtune_call, hardtune_calls >>

PresetInit == Init

PresetNext == \E key \in Keys, overflow_checks \in BOOLEAN : ParsePreset(key, overflow_checks)

PresetSpec == PresetInit /\ [][PresetNext]_vars

TypeOK ==
    /\ command_count \in 0..U16Max
    /\ polls \in 0..PollLimit
    /\ not_ready \in 0..polls
    /\ result.kind \in {"none", "ok", "err", "panic"}
    /\ Running => result = NoResult
    /\ hardtune_calls \in 0..MaxHardtuneCalls
    /\ parsed.returned.kind \in {"none", "ok", "err", "panic"}

(***************************************************************************)
(* Properties                                                              *)
(***************************************************************************)
Finished == ~Running /\ result # NoResult

LastCycle == cycles[Len(cycles)]

Indices == 1..Len(cycles)

\* the header fields and the trailing body of a frame, decoded from its bytes
FrameSeq(bytes) == read_u16(bytes, 6)

FrameLen(bytes) == read_u16(bytes, 4)

FrameBody(bytes) == SubSeq(bytes, HeaderLen + 1, Len(bytes))

\* the last read_control delivered a header and a body
ReadFull == last_read.kind = "ok" /\ Len(last_read.body) >= 16

\* ... whose sequence number is that of the request awaiting its answer
ReadMatches == ReadFull /\ FrameSeq(last_read.body) = FrameSeq(LastCycle.full_request)

\* ... and whose declared length is that of its body
ReadWellFormed == ReadFull /\ FrameLen(last_read.body) = Len(FrameBody(last_read.body))

\* C1: when all 20 polls of a request cycle returned not-ready, the call
\* fails (it does not return success), and no 21st poll is issued.
C1_TimeoutFails ==
    /\ polls <= 20
    /\ (Finished /\ polls = 20 /\ not_ready = 20) => result.kind = "err"

\* C2: a call returns success only with the trailing body of a response
\* read during the call whose sequence number equals that of the request
\* awaiting its answer.
C2_SuccessHasMatchingResponse ==
    (Finished /\ result.kind = "ok") =>
        /\ ReadMatches
        /\ result.body = FrameBody(last_read.body)

\* C3: after a first mismatch on a non-retry request, when the
\* ResetCommandIndex that follows receives a matching response, the original
\* command and body are sent again as a retry, and when that receives a
\* matching response the call returns the retry's body as success.
C3_ResyncRetrySucceeds ==
    \A k \in Indices :
        (/\ cycles[k].outcome = "mismatch"
         /\ ~cycles[k].retry
         /\ k + 1 <= Len(cycles)
         /\ cycles[k + 1].outcome = "match") =>
            /\ cycles[k + 1].command = "ResetCommandIndex"
            /\ IF Len(cycles) = k + 1
               THEN /\ Running
                    /\ Top(stack).pc = "write"
                    /\ Top(stack).retry
                    /\ Top(stack).command = cycles[k].command
                    /\ Top(stack).body = cycles[k].request
               ELSE /\ cycles[k + 2].command = cycles[k].command
                    /\ cycles[k + 2].request = cycles[k].request
                    /\ cycles[k + 2].outcome = "match" =>
                          /\ Finished
                          /\ result = Ok(cycles[k + 2].body)
                          /\ ReadMatches
                          /\ result.body = FrameBody(last_read.body)

C3_Witness ==
    /\ Finished
    /\ Len(cycles) >= 3
    /\ cycles[Len(cycles) - 2].outcome = "mismatch"
    /\ cycles[Len(cycles) - 2].role = "top"
    /\ cycles[Len(cycles) - 1].outcome = "match"
    /\ LastCycle.outcome = "match"
    /\ result = Ok(<<7>>)

\* C4: when the original attempt and the retried attempt both read a
\* mismatching response, the call fails with rusb's Other (the terminal
\* resync error) at once, and the original command is written at most twice
\* in one call (once as the original attempt, once as the retry).
C4_ResyncExhausted ==
    /\ \A k \in Indices :
          (/\ cycles[k].role = "retry"
           /\ cycles[k].outcome = "mismatch"
           /\ \E j \in 1..(k - 1) : cycles[j].role = "top" /\ cycles[j].outcome = "mismatch") =>
              /\ k = Len(cycles)
              /\ Finished
              /\ result = Err("Other")
    /\ Cardinality({k \in Indices : cycles[k].role \in {"top", "retry"}}) <= 2

C4_Witness ==
    /\ Finished
    /\ Len(cycles) >= 3
    /\ LastCycle.role = "retry"
    /\ LastCycle.outcome = "mismatch"
    /\ result = Err("Other")

\* C5 as stated: while the caller issues only non-reset commands, each is
\* framed with its ordinal, counted from the fresh session or from the last
\* overflow of the counter.
C5_Original ==
    ~caller_reset =>
        \A k \in Indices : cycles[k].command # "ResetCommandIndex" => cycles[k].seq = issued

\* C5 amended: each non-reset frame carries the number of non-reset frames
\* built since the last ResetCommandIndex frame (or since the session was
\* fresh), so the numbers run 1, 2, ... without repeats; and while the caller
\* issues only non-reset commands a ResetCommandIndex frame is inserted only
\* when the counter is at its maximum or after a sequence mismatch.
C5_Amended ==
    /\ (cycles # <<>> /\ LastCycle.command # "ResetCommandIndex") =>
          /\ FrameSeq(LastCycle.full_request) = framed
          /\ framed >= 1
    /\ ~caller_reset =>
          \A k \in Indices :
              cycles[k].command = "ResetCommandIndex" =>
                  \/ cycles[k].role = "overflow" /\ entry_count = U16Max
                  \/ /\ cycles[k].role = "resync"
                     /\ k > 1
                     /\ cycles[k - 1].outcome = "mismatch"

C5_Witness ==
    /\ ~caller_reset
    /\ issued = 2
    /\ cycles # <<>>
    /\ LastCycle.role = "retry"
    /\ LastCycle.command # "ResetCommandIndex"
    /\ FrameSeq(LastCycle.full_request) = 1
    /\ result.kind = "ok"

\* C6: the counter never wraps: no non-reset frame carries sequence 0 (what
\* an increment at 65535 would give), and a non-reset command issued at
\* 65535 first sends ResetCommandIndex with sequence 0 and is then framed
\* with sequence 1.
C6_NoWrap ==
    /\ \A k \in Indices :
          cycles[k].command # "ResetCommandIndex" =>
              FrameSeq(cycles[k].full_request) \in 1..65535
    /\ (call.command \notin {"", "ResetCommandIndex"} /\ entry_count = 65535) =>
          /\ (Running /\ cycles = <<>>) =>
                Top(stack).command = "ResetCommandIndex" /\ Top(stack).pc = "write"
          /\ cycles # <<>> =>
                /\ cycles[1].command = "ResetCommandIndex"
                /\ FrameSeq(cycles[1].full_request) = 0
          /\ Len(cycles) >= 2 =>
                /\ cycles[2].command = call.command
                /\ FrameSeq(cycles[2].full_request) = 1

C6_Witness ==
    /\ entry_count = 65535
    /\ Len(cycles) = 2
    /\ cycles[1].role = "overflow"
    /\ cycles[2].command = "SystemInfo"
    /\ FrameSeq(cycles[2].full_request) = 1
    /\ command_count = 1

\* C7: every ResetCommandIndex frame carries sequence 0, and the counter is
\* 0 while such a request is being sent and awaited, whoever issued it and
\* whatever the counter was before.
C7_ResetUsesZero ==
    /\ \A k \in Indices :
          cycles[k].command = "ResetCommandIndex" => FrameSeq(cycles[k].full_request) = 0
    /\ (Running /\ Top(stack).command = "ResetCommandIndex") =>
          /\ command_count = 0
          /\ FrameSeq(Top(stack).full_request) = 0

C7_Witness ==
    /\ Running
    /\ Top(stack).command = "ResetCommandIndex"
    /\ Top(stack).role = "resync"
    /\ Top(stack).pc = "poll"
    /\ entry_count = 65534
    /\ command_count = 0

\* C8: the attempt limit is inclusive: a request cycle is given up for lack
\* of a response only after 20 polls, and a well-formed matching response
\* read by the 20th poll after 19 not-ready polls is accepted; the call
\* returns its body as success.
C8_InclusiveLimit ==
    /\ (cycles # <<>> /\ LastCycle.outcome \in {"exhausted", "timeout"}) => polls = 20
    /\ (polls = 20 /\ not_ready = 19 /\ ReadMatches /\ ReadWellFormed) =>
          /\ LastCycle.outcome = "match"
          /\ LastCycle.body = FrameBody(last_read.body)
          /\ LastCycle.role \in {"top", "retry"} =>
                Finished /\ result = Ok(FrameBody(last_read.body))

C8_Witness ==
    /\ Finished
    /\ polls = 20
    /\ not_ready = 19
    /\ ReadMatches
    /\ result = Ok(<<7>>)

\* C9: a failed write_control, or a read_control failing with anything but
\* Pipe, ends the call with that error whichever request it belonged to
\* (original, overflow reset, resync reset, retry): it is the last request
\* cycle of the call.
C9_TransportErrorFatal ==
    \A k \in Indices :
        cycles[k].outcome \in {"write_error", "read_error"} =>
            /\ k = Len(cycles)
            /\ Finished
            /\ result = Err(cycles[k].err)
            /\ cycles[k].outcome = "read_error" => last_read = Err(cycles[k].err)

C9_Witness ==
    /\ Finished
    /\ Len(cycles) >= 2
    /\ LastCycle.role = "resync"
    /\ LastCycle.outcome = "read_error"
    /\ result = Err("Timeout")

\* C10: a read_control that delivers fewer than 16 bytes ends the call with
\* an error (rusb's Pipe stands for the malformed response): no success, no
\* resync, no further poll.
C10_ShortResponseFatal ==
    /\ (last_read.kind = "ok" /\ Len(last_read.body) < 16) =>
          /\ Finished
          /\ result = Err("Pipe")
          /\ LastCycle.outcome = "short"
    /\ \A k \in Indices : cycles[k].outcome = "short" => k = Len(cycles)

C10_Witness ==
    /\ Finished
    /\ last_read = Ok(Zeros(15))
    /\ LastCycle.role = "top"
    /\ polls = 3
    /\ result = Err("Pipe")

\* C11: no call returns to its caller the transport's not-ready condition,
\* rusb's Pipe (stated here for the calls whose write_control succeeded, so
\* that a Pipe returned can only come from the poll loop).
C11_PipeNeverSurfaced ==
    (Finished /\ LastCycle.outcome # "write_error") => result # Err("Pipe")

\* C12: a body returned as success has as many bytes as the header of the
\* response it came from declares.
C12_SuccessHasDeclaredLength ==
    (Finished /\ result.kind = "ok") =>
        /\ ReadFull
        /\ Len(result.body) = FrameLen(last_read.body)

\* the command identifier of a frame, decoded from its bytes
FrameId(bytes) ==
    bytes[1] + 256 * bytes[2] + 65536 * bytes[3] + 16777216 * bytes[4]

\* C13: for a body of at most 65535 bytes, decoding the frame recovers the
\* command identifier, the sequence number and the body (and the length
\* field is the body's length).
C13_FramingRoundTrips ==
    (framer.written /\ Len(framer.body) <= 65535) =>
        /\ FrameId(framer.full_request) = command_id(framer.command)
        /\ FrameSeq(framer.full_request) = framer.command_index
        /\ FrameLen(framer.full_request) = Len(framer.body)
        /\ FrameBody(framer.full_request) = framer.body

C13_Witness ==
    /\ framer.written
    /\ framer.command = "GetMicrophoneLevel"
    /\ framer.command_index = 4660
    /\ Len(framer.body) = 65535
    /\ FrameSeq(framer.full_request) = 4660

\* C14: every frame handed to write_control is 16 + len(body) bytes long,
\* its bytes 8 to 15 are zero and its length field is len(body).
C14_FrameLayout ==
    framer.written =>
        /\ Len(framer.full_request) = 16 + Len(framer.body)
        /\ \A k \in 9..16 : framer.full_request[k] = 0
        /\ FrameLen(framer.full_request) = Len(framer.body)

\* C15: no frame is handed to write_control for a body of more than 65535
\* bytes.
C15_LongBodyRejected == framer.written => Len(framer.body) <= 65535

RoleCount(role) == Cardinality({k \in Indices : cycles[k].role = role})

\* C16: a call is made of at most four request cycles (an overflow reset,
\* the original attempt, one resync reset, one retry), each of one write and
\* at most 20 polls; the nesting is at most two activations deep; and a
\* running call is always at a control transfer, so it ends after at most
\* 4 * 21 transfers whatever the device answers.
C16_BoundedCall ==
    /\ Len(cycles) <= 4
    /\ polls <= 20
    /\ Len(stack) <= 2
    /\ RoleCount("overflow") <= 1
    /\ RoleCount("top") <= 1
    /\ RoleCount("resync") <= 1
    /\ RoleCount("retry") <= 1
    /\ Running =>
          /\ Top(stack).pc \in {"write", "poll"}
          /\ Top(stack).pc = "poll" => polls < 20
    /\ ~Running => (cycles = <<>> \/ result # NoResult)

C16_Witness ==
    /\ Finished
    /\ Len(cycles) = 4
    /\ cycles[1].role = "overflow"
    /\ cycles[2].role = "top"
    /\ cycles[3].role = "resync"
    /\ cycles[4].role = "retry"
    /\ polls = 20

\* C17: after a write at most 20 polls are issued, and a request cycle is
\* still open after a poll (so that another poll follows) only while fewer
\* than 20 polls have been made for it.
C17_AtMostTwentyPolls ==
    /\ polls <= 20
    /\ (cycles # <<>> /\ LastCycle.outcome = "pending") =>
          /\ polls < 20
          /\ polls = not_ready
          /\ Running
          /\ Top(stack).pc = "poll"

C17_Witness ==
    /\ polls = 20
    /\ not_ready = 20
    /\ LastCycle.outcome = "exhausted"
    /\ LastCycle.role = "top"
    /\ Finished

\* C18: when the ResetCommandIndex of a resync or of the overflow handling
\* gets not-ready on all its 20 polls, the call ends there with an error and
\* no further request is written.
C18_ResetTimeoutAborts ==
    \A k \in Indices :
        (cycles[k].role \in {"overflow", "resync"} /\ cycles[k].outcome = "exhausted") =>
            /\ k = Len(cycles)
            /\ Finished => result.kind = "err"

\* C19: after a call that failed with an error the counter is a valid
\* sequence number, the session accepts the next call, and when the
\* device answers that call's request with a well-formed matching response
\* the call returns its body as success.
C19_UsableAfterFailure ==
    prev_failed =>
        /\ command_count \in 0..65535
        /\ entry_count \in 0..65535
        /\ (ReadMatches /\ ReadWellFormed /\ LastCycle.role \in {"top", "retry"}) =>
              /\ Finished
              /\ result = Ok(FrameBody(last_read.body))

C19_Witness ==
    /\ prev_failed
    /\ Finished
    /\ ReadMatches
    /\ ReadWellFormed
    /\ Len(cycles) = 1
    /\ result = Ok(<<7>>)
    /\ command_count = 2

\* C20: at most one request is in flight: a request cycle still awaiting
\* its answer is the last one written, a frame is written only when every
\* earlier cycle has ended, and only the innermost activation is at a
\* control transfer.
C20_OneInFlight ==
    /\ \A k \in Indices : k < Len(cycles) => cycles[k].outcome # "pending"
    /\ (Running /\ Top(stack).pc = "write" /\ cycles # <<>>) => LastCycle.outcome # "pending"
    /\ \A j \in 1..Len(stack) : j < Len(stack) => stack[j].pc \notin {"write", "poll"}

C20_Witness ==
    /\ Running
    /\ Len(stack) = 2
    /\ Len(cycles) = 3
    /\ cycles[1].outcome = "mismatch"
    /\ cycles[2].outcome = "match"
    /\ LastCycle.outcome = "pending"
    /\ Top(stack).pc = "poll"

\* the elements of a sequence
Range(s) == {s[k] : k \in 1..Len(s)}

\* the places of the enumerated devices whose descriptor was read and
\* carries the vendor identifier and one of the two product identifiers
GoXLRPlaces(ds) ==
    {GoXLRDevice(u.bus_number, u.address) :
        u \in {v \in Range(ds.list) :
                  /\ v.readable
                  /\ v.descriptor.vendor_id = VID_GOXLR
                  /\ v.descriptor.product_id \in {PID_GOXLR_FULL, PID_GOXLR_MINI}}}

\* C21: find_devices returns, once each, the (bus, address) pairs of exactly
\* the enumerated devices whose descriptor carries the vendor identifier and
\* one of the two product identifiers, and the empty list when none does or
\* when the enumeration fails.
C21_LocatorExact ==
    devices.kind # "none" =>
        /\ Range(found_devices) = GoXLRPlaces(devices)
        /\ Len(found_devices) = Cardinality(GoXLRPlaces(devices))
        /\ devices.kind = "err" => found_devices = <<>>

C21_Witness ==
    /\ devices.kind = "ok"
    /\ Len(devices.list) = 4
    /\ found_devices = << GoXLRDevice(1, 2), GoXLRDevice(1, 3) >>

\* the enumerated devices at the place from_device was asked for
AtPlace(ds, device) ==
    {u \in Range(ds.list) :
        u.bus_number = device.bus_number /\ u.address = device.address}

\* the sequence number the first call of a non-reset command would frame
FirstSeqs ==
    {Top(Enter(Machine(<<>>, command_count, NoResult), command, body, FALSE, "top").stack).command_index :
        command \in Commands \ {"ResetCommandIndex"}, body \in Bodies}

\* C22: from_device fails with the not-found error when the enumeration
\* shows no device at the bus number and address asked for; when it
\* succeeds the session's counter is 0 and its first non-reset command is
\* framed with sequence 1.
C22_OpenResolvesLocation ==
    attached # NoResult =>
        /\ AtPlace(usb_devices, location) = {} =>
              attached = Err("Specified Device not Found!")
        /\ attached.kind = "ok" =>
              /\ command_count = 0
              /\ FirstSeqs = {1}

C22_Witness ==
    /\ attached.kind = "ok"
    /\ location = GoXLRDevice(1, 2)
    /\ Len(usb_devices.list) = 4
    /\ command_count = 0
    /\ descriptor = Descriptor(VID_GOXLR, PID_GOXLR_FULL)

\* C23: every sleep of a call lasts 10 ms when the session's product
\* identifier is the mini's and 3 ms otherwise, whatever the vendor
\* identifier; a sleep follows each accepted write and each not-ready poll.
C23_SettleDelayByProduct ==
    /\ slept \subseteq {IF descriptor.product_id = PID_GOXLR_MINI THEN 10 ELSE 3}
    /\ (cycles # <<>> /\ LastCycle.outcome # "write_error") =>
          /\ sleeps = 1 + not_ready
          /\ slept # {}

C23_Witness ==
    /\ descriptor = Descriptor(1133, PID_GOXLR_MINI)
    /\ Len(cycles) = 3
    /\ sleeps = 21
    /\ slept = {10}
    /\ Finished

\* the frame of ResetCommandIndex: sequence 0, empty body
ResetFrame == FullRequest("ResetCommandIndex", 0, <<>>)

\* what every statement of C24 says of the frame after a first mismatch
C24_ResetThenRetry(k) ==
    /\ Len(cycles) = k =>
          /\ Running
          /\ Top(stack).pc = "write"
          /\ Top(stack).full_request = ResetFrame
    /\ k + 1 <= Len(cycles) => cycles[k + 1].full_request = ResetFrame
    /\ k + 2 <= Len(cycles) =>
          /\ FrameId(cycles[k + 2].full_request) = FrameId(cycles[k].full_request)
          /\ FrameBody(cycles[k + 2].full_request) = cycles[k].request
          /\ cycles[k + 2].retry
          /\ Len(cycles) = k + 2

\* C24 as stated: after the first mismatch of a non-retry request the next
\* two frames written are the ResetCommandIndex frame (sequence 0, empty
\* body) and then the original command and body, marked as a retry, with
\* sequence 1.
C24_Original ==
    \A k \in Indices :
        (cycles[k].outcome = "mismatch" /\ ~cycles[k].retry) =>
            /\ C24_ResetThenRetry(k)
            /\ k + 2 <= Len(cycles) => FrameSeq(cycles[k + 2].full_request) = 1

\* C24 amended: ... with the sequence number assigned afresh: 1 for a
\* non-reset command, 0 when the original command is ResetCommandIndex.
C24_Amended ==
    \A k \in Indices :
        (cycles[k].outcome = "mismatch" /\ ~cycles[k].retry) =>
            /\ C24_ResetThenRetry(k)
            /\ k + 2 <= Len(cycles) =>
                  FrameSeq(cycles[k + 2].full_request) =
                      IF cycles[k].command = "ResetCommandIndex" THEN 0 ELSE 1

C24_Witness ==
    /\ Len(cycles) = 3
    /\ cycles[1].outcome = "mismatch"
    /\ cycles[1].command = "GetMicrophoneLevel"
    /\ cycles[1].request = <<7>>
    /\ cycles[2].full_request = ResetFrame
    /\ FrameSeq(cycles[3].full_request) = 1
    /\ FrameBody(cycles[3].full_request) = <<7>>
    /\ entry_count = 65534

\* C25: a mismatching response to the ResetCommandIndex sent because the
\* counter is at its maximum starts no resync: it is the last request cycle
\* of the call, which fails.
C25_OverflowResetNotRetried ==
    \A k \in Indices :
        (cycles[k].role = "overflow" /\ cycles[k].outcome = "mismatch") =>
            /\ k = Len(cycles)
            /\ Finished
            /\ result = Err("Other")

C25_Witness ==
    /\ Finished
    /\ Len(cycles) = 1
    /\ LastCycle.role = "overflow"
    /\ LastCycle.outcome = "mismatch"
    /\ entry_count = 65535

\* C26: a mismatching response to the ResetCommandIndex of a resync ends the
\* call with the terminal error; the original command is not sent again.
C26_ResyncResetMismatchFatal ==
    \A k \in Indices :
        (cycles[k].role = "resync" /\ cycles[k].outcome = "mismatch") =>
            /\ k = Len(cycles)
            /\ Finished
            /\ result = Err("Other")
            /\ RoleCount("retry") = 0

C26_Witness ==
    /\ Finished
    /\ Len(cycles) = 2
    /\ cycles[1].role = "top"
    /\ cycles[1].outcome = "mismatch"
    /\ LastCycle.role = "resync"
    /\ LastCycle.outcome = "mismatch"
    /\ result = Err("Other")

\* C27: a non-reset command whose only request cycle ended in a write
\* error, a read error or a short response leaves the counter at the number
\* it was framed with, and the next non-reset command is framed with the
\* number after the counter it found (with 1, after the overflow reset,
\* when it found 65535).
C27_NumberConsumedOnFailure ==
    /\ (/\ Finished
        /\ Len(cycles) = 1
        /\ LastCycle.role = "top"
        /\ LastCycle.command # "ResetCommandIndex"
        /\ LastCycle.outcome \in {"write_error", "read_error", "short"}) =>
          /\ result.kind = "err"
          /\ command_count = FrameSeq(LastCycle.full_request)
          /\ command_count = entry_count + 1
    /\ (call.command \notin {"", "ResetCommandIndex"} /\ cycles # <<>>) =>
          IF entry_count = 65535
          THEN Len(cycles) >= 2 => FrameSeq(cycles[2].full_request) = 1
          ELSE FrameSeq(cycles[1].full_request) = entry_count + 1

\* the second command of a session whose first one failed in its only
\* request cycle: no ResetCommandIndex frame lies between the two frames
C27_Witness ==
    /\ prev_failed
    /\ ~caller_reset
    /\ entry_count = 1
    /\ framed = 2
    /\ Len(cycles) = 1
    /\ FrameSeq(cycles[1].full_request) = 2

\* the last response read carried another sequence number than the request
ReadMismatches ==
    ReadFull /\ FrameSeq(last_read.body) # FrameSeq(LastCycle.full_request)

\* C28: a response of at least 16 bytes with another sequence number ends
\* its request cycle at the poll that read it: a non-retry request goes on
\* to write the resync's ResetCommandIndex, a retry fails at once; no later
\* poll of that cycle waits for the matching response.
C28_FirstResponseDecides ==
    /\ ReadMismatches =>
          /\ LastCycle.outcome = "mismatch"
          /\ IF LastCycle.retry
             THEN Finished /\ result = Err("Other")
             ELSE /\ Running
                  /\ Top(stack).pc = "write"
                  /\ Top(stack).role = "resync"
    /\ \A k \in Indices : cycles[k].outcome = "pending" => (polls = not_ready /\ k = Len(cycles))

C28_Witness ==
    /\ ReadMismatches
    /\ polls = 2
    /\ not_ready = 1
    /\ Running
    /\ Top(stack).role = "resync"
    /\ Len(cycles) = 1

\* C29: a well-formed response with the awaited sequence number is taken
\* as the answer whatever command identifier its header carries: the request
\* cycle ends in a match and the original or retried command returns its
\* body as success.
C29_CorrelationBySequenceOnly ==
    (/\ ReadMatches
     /\ ReadWellFormed
     /\ FrameId(last_read.body) # FrameId(LastCycle.full_request)) =>
        /\ LastCycle.outcome = "match"
        /\ LastCycle.role \in {"top", "retry"} =>
              /\ Finished
              /\ result = Ok(FrameBody(last_read.body))

\* a retry that reuses sequence 1 after the reset accepts a response that
\* carries 1 and the identifier of another command
C29_Witness ==
    /\ Finished
    /\ Len(cycles) = 3
    /\ LastCycle.role = "retry"
    /\ LastCycle.command = "GetMicrophoneLevel"
    /\ FrameSeq(LastCycle.full_request) = 1
    /\ ReadMatches
    /\ FrameId(last_read.body) = command_id("SystemInfo")
    /\ result = Ok(<<7>>)

\* C30: whenever the enumeration shows a device with a readable descriptor
\* at the place asked for, find_device resolves it whatever its vendor and
\* product identifiers: from_device fails only if the handle cannot be
\* opened, and the session it returns holds that device's descriptor.
C30_OpenIgnoresIdentity ==
    (attached # NoResult /\ \E u \in AtPlace(usb_devices, location) : u.readable) =>
        /\ attached \in {Ok(<<>>), Err("Access")}
        /\ attached.kind = "ok" =>
              \E u \in AtPlace(usb_devices, location) : u.readable /\ descriptor = u.descriptor

\* a place the locator listed, later taken by another vendor's device
C30_Witness ==
    /\ attached.kind = "ok"
    /\ location \in Range(found_devices)
    /\ location \notin GoXLRPlaces(usb_devices)
    /\ descriptor.vendor_id # VID_GOXLR
    /\ command_count = 0

\* the call just made on the hardtune component was a setter
SetterCalled ==
    hardtune_call.op \in {"set_amount", "set_window", "set_rate", "set_style", "set_source"}

InRange(effect) ==
    /\ effect.amount <= 100
    /\ effect.window <= 600
    /\ effect.rate <= 100
    /\ effect.pitch_amt = 0

\* C31: every HardTuneEffect reached from HardTuneEffect::new() by the
\* setters and parse_hardtune_preset has amount <= 100, window <= 600,
\* rate <= 100 and pitch_amt = 0; a setter that rejects its argument
\* returns an error and leaves the effect as it was.
C31_EffectsStayInRange ==
    /\ \A preset \in Presets : InRange(preset_map[preset])
    /\ (SetterCalled /\ ~hardtune_call.ok) => preset_map = hardtune_call.before

\* the last character of the key handed to parse_preset is one of "1".."6"
EndsInPresetDigit ==
    /\ parsed.key # <<>>
    /\ \E d \in 1..6 : parsed.key[Len(parsed.key)] = DigitChars[d + 1]

\* C32: parse_preset returns the d-th preset for every key whose last
\* character is a digit d in 1..6 and an error value for every other key,
\* one ending in "0" included; it never aborts instead of returning.
C32_PresetOrError ==
    parsed # NotParsed =>
        /\ parsed.returned.kind # "panic"
        /\ IF EndsInPresetDigit
           THEN parsed.returned =
                    PresetResult("ok", PresetIter[DigitValue(parsed.key[Len(parsed.key)])], "")
           ELSE parsed.returned.kind = "err"

====
